---- MODULE Spec2Model ----
(***************************************************************************)
(* The check-in pipeline of the habit-tracking backend: the two check-in   *)
(* routes (POST /habits/:id/checkIn and POST /checkins), the streak        *)
(* update, addXP / handleLevelUp and checkAchievements, over the document  *)
(* collections habits, checkins, users, achievements and notifications.    *)
(*                                                                         *)
(* Every request handler is a process: one action per database operation   *)
(* it awaits, together with the synchronous code that follows it.  Node    *)
(* runs the code between two awaits without interruption, so these are the *)
(* points where two requests interleave.                                   *)
(*                                                                         *)
(* Calendar dates are day numbers: the date-string "YYYY-MM-DD" of a day   *)
(* is modelled by the number of that day, the day before it by d - 1.      *)
(***************************************************************************)
EXTENDS Integers, Sequences, FiniteSets, TLC

VARIABLES
  clock,          \* the current day (what new Date() falls on)
  habits,         \* collection 'habits': id -> document
  checkins,       \* collection 'checkins': documents in order of creation
  users,          \* collection 'users': uid -> document
  achievements,   \* collection 'achievements': documents in order of creation
  notifications,  \* collection 'notifications': documents in order of creation
  alerts,         \* calls of sendStreakEndAlert, in order
  procs           \* the request handlers in flight

vars == <<clock, habits, checkins, users, achievements, notifications, alerts, procs>>
db == <<habits, checkins, users, achievements, notifications, alerts>>

----------------------------------------------------------------------------
(* Bounds of the model *)

MaxDay == 2         \* the clock runs over days 1..MaxDay
MaxCheckIns == 2    \* check-in documents created on top of the initial ones
MaxXP == 300        \* addXP is not called on its own once the xp is beyond this
MaxDepth == 4       \* handleLevelUp calls that may be open at once
MaxAchievements == 4  \* checkAchievements is not called on its own beyond this
MaxWeeks == 1       \* the weeks that pass at once, on top of the first day

Procs == {1, 2}
Users == {"u1", "u2"}
HabitIds == {"h1", "h0"}        \* "h0" names no document
XPAmounts == {0, 10, 150, 250}        \* the amounts addXP is called with on its own
Days == 1..MaxDay

Includes(s, x) == \E i \in 1..Len(s) : s[i] = x
Max(a, b) == IF a >= b THEN a ELSE b

----------------------------------------------------------------------------
(* Program constants *)

XP_CHECK_IN == 10                          \* addXP(userId, 10, 'check_in')
LEVEL_XP_REQUIREMENTS == <<0, 100, 250>>   \* minimum xp of level i
XP_VALUES_LEVEL_UP == 50
XP_VALUES_STREAK_7 == 25
XP_VALUES_STREAK_30 == 50
XP_VALUES_STREAK_100 == 100
STREAK_MILESTONES(streak) ==
  \/ streak \in {7, 30, 50, 100}
  \/ streak > 100 /\ streak % 100 = 0
milestones == <<10, 25, 50, 100, 250, 500>>

----------------------------------------------------------------------------
(* Documents *)

\* createHabitData: a habit is created active, with streak 0, longestStreak 0
\* and no completed date.  The fields paused and archived do not exist until
\* a pause or archive request writes them; a missing field reads as false.
Daily == [type |-> "daily", days |-> {}]

\* The day of the week of a day (0..6).
DayOfWeek(date) == date % 7

createHabitData(userId) ==
  [userId |-> userId, frequency |-> Daily,
   status |-> "active", paused |-> FALSE, archived |-> FALSE,
   streak |-> 0, longestStreak |-> 0, completedDates |-> <<>>]

\* createCheckInData: completed is true unless the data says false.
createCheckInData(habitId, userId, date, completed) ==
  [habitId |-> habitId, userId |-> userId, date |-> date,
   completed |-> (completed # "false")]

\* A user document.  register writes neither xp nor level: 0 stands for the
\* missing field as well, which the code reads through `|| 0` and `|| 1`.
\* The field deactivated does not exist until the account is deactivated.
NoUser ==
  [exists |-> FALSE, xp |-> 0, level |-> 0, fcmToken |-> FALSE, deactivated |-> FALSE]
registerUserData ==
  [exists |-> TRUE, xp |-> 0, level |-> 0, fcmToken |-> FALSE, deactivated |-> FALSE]

createAchievementData(userId, type, key, habitId, xpReward) ==
  [userId |-> userId, type |-> type, key |-> key, habitId |-> habitId,
   xpReward |-> xpReward]

createNotificationData(userId, title) ==
  [userId |-> userId, type |-> "achievement", title |-> title]

----------------------------------------------------------------------------
(* Request handlers *)

NoRet == [xp |-> 0, level |-> 0, levelUp |-> FALSE]

\* The body of PUT /checkins/:id: the fields it holds, "none" for a field it
\* does not hold.
NoUpdates == [userId |-> "none", habitId |-> "none", completed |-> "none"]

\* A handler: the request (op, caller, habitId, date, completed), where it
\* stands (pc), its answer (resp), and the local variables of the code.  The
\* fields of the last three lines are not in the code: they record what the
\* handler found on arrival and did, to state its effect.
IdleProc ==
  [op |-> "idle", pc |-> "idle", resp |-> "none",
   caller |-> "u1", habitId |-> "h1", date |-> 0, completed |-> "omitted",
   completedDates |-> <<>>, previousStreak |-> 0, newStreak |-> 0,
   streakResult |-> 0,
   site |-> "none", amount |-> 0, currentLevel |-> 0, newXP |-> 0, newLevel |-> 0,
   depth |-> 0, ret |-> NoRet, newPaused |-> FALSE, frequency |-> Daily,
   pending |-> <<>>, total |-> 0, unlocked |-> <<>>, docs |-> {},
   docId |-> 0, updates |-> NoUpdates,
   dup |-> FALSE, precedes |-> FALSE, accepted |-> FALSE,
   xp0 |-> 0, level0 |-> 0, amount0 |-> 0,
   achievements0 |-> 0, notifications0 |-> 0, alerted |-> 0]

\* An answer that is sent without leaving the handler of POST /checkins.
Respond_noReturn(p, req, resp) ==
  procs' = [procs EXCEPT ![p] =
              [req EXCEPT !.pc = IF req.op = "postCheckIn" /\ req.pc = "idle"
                                 THEN "B_add" ELSE "done",
                          !.resp = resp]]

Respond(p, req, resp) ==
  procs' = [procs EXCEPT ![p] = [req EXCEPT !.pc = "done", !.resp = resp]]

Goto(p, req, pc) ==
  procs' = [procs EXCEPT ![p] = [req EXCEPT !.pc = pc]]

----------------------------------------------------------------------------
(* The initial states.  A new habit of user u1, whose user document is     *)
(* missing, just registered, or holds the xp of earlier activity.  Or the  *)
(* same habit after nine check-ins through POST /checkins by a registered  *)
(* user: on the days -9, -8, -7, then (a day missed) on the six days -5..0 *)
(* before day 1.                                                           *)

FreshHabit == createHabitData("u1")

PastDays == <<-9, -8, -7, -5, -4, -3, -2, -1, 0>>
PastHabit ==
  [FreshHabit EXCEPT !.streak = 6, !.longestStreak = 6,
                     !.completedDates = PastDays]
PastCheckIns ==
  [i \in 1..Len(PastDays) |-> createCheckInData("h1", "u1", PastDays[i], "true")]
PastUser ==
  [exists |-> TRUE, xp |-> Len(PastDays) * XP_CHECK_IN, level |-> 1,
   fcmToken |-> FALSE, deactivated |-> FALSE]
PastAlerts ==
  <<[userId |-> "u1", habitId |-> "h1", type |-> "streak_end",
     previousStreak |-> 3, sent |-> FALSE]>>

InitialUsers ==
  {NoUser, registerUserData,
   [exists |-> TRUE, xp |-> 95, level |-> 1, fcmToken |-> TRUE,
    deactivated |-> FALSE]}

Init ==
  /\ clock = 1
  /\ \/ /\ habits = [h \in {"h1"} |-> FreshHabit]
        /\ checkins = <<>>
        /\ alerts = <<>>
        /\ \E u \in InitialUsers :
              users = [v \in Users |-> IF v = "u1" THEN u ELSE NoUser]
     \/ /\ habits = [h \in {"h1"} |-> PastHabit]
        /\ checkins = PastCheckIns
        /\ alerts = PastAlerts
        /\ users = [v \in Users |-> IF v = "u1" THEN PastUser ELSE NoUser]
  /\ achievements = <<>>
  /\ notifications = <<>>
  /\ procs = [p \in Procs |-> IdleProc]

----------------------------------------------------------------------------
(* sendStreakEndAlert -> sendNotification: the push is sent when the user  *)
(* document exists and holds an FCM token; every failure is caught and     *)
(* returned, never thrown.                                                 *)

sendNotification(userId) ==
  users[userId].exists /\ users[userId].fcmToken

sendStreakEndAlert(userId, habitId, previousStreak) ==
  Append(alerts, [userId |-> userId, habitId |-> habitId, type |-> "streak_end",
                  previousStreak |-> previousStreak,
                  sent |-> sendNotification(userId)])

----------------------------------------------------------------------------
(* POST /habits/:id/checkIn *)

\* A test that never finds today's date.
checkedInToday_never(completedDates, today) ==
  FALSE

\* "Check if already checked in today": completedDates.includes(today)
checkedInToday(completedDates, today) ==
  Includes(completedDates, today)

\* A check-in that never starts the streak again.
checkInNewStreak_noReset(completedDates, previousStreak, today) ==
  previousStreak + 1

\* "Calculate new streak": 1, or previousStreak + 1 when yesterday's date is
\* among the completed dates.
checkInNewStreak(completedDates, previousStreak, today) ==
  IF Len(completedDates) > 0 /\ Includes(completedDates, today - 1)
  THEN previousStreak + 1
  ELSE 1

\* "Streak broken - send notification"
checkInStreakBroken(completedDates, previousStreak, today) ==
  /\ Len(completedDates) > 0
  /\ ~Includes(completedDates, today - 1)
  /\ previousStreak > 0

\* An update that takes the new streak for the longest one.
checkInUpdate_longestIsStreak(habit, completedDates, today, newStreak) ==
  [habit EXCEPT !.completedDates = Append(completedDates, today),
                !.streak = newStreak, !.longestStreak = newStreak]

\* The fields the check-in writes to the habit document.
checkInUpdate(habit, completedDates, today, newStreak) ==
  [habit EXCEPT !.completedDates = Append(completedDates, today),
                !.streak = newStreak]

\* The request arrives: the habit is read and checked, the streak computed.
HabitCheckIn(p, caller, id) ==
  /\ procs[p].op = "idle"
  /\ LET req == [IdleProc EXCEPT !.op = "habitCheckIn", !.caller = caller,
                                 !.habitId = id, !.date = clock]
     IN IF id \notin DOMAIN habits
        THEN Respond(p, req, "notFound")
        ELSE LET habit == habits[id]
                 today == clock
                 completedDates == habit.completedDates
                 previousStreak == habit.streak
                 run == [req EXCEPT
                           !.completedDates = completedDates,
                           !.previousStreak = previousStreak,
                           !.newStreak = checkInNewStreak(completedDates,
                                                          previousStreak, today),
                           !.precedes = Includes(completedDates, today - 1)]
             IN IF habit.userId # caller
                THEN Respond(p, req, "unauthorized")
                ELSE IF habit.archived \/ habit.paused
                THEN Respond(p, req, "inactive")
                ELSE IF checkedInToday(completedDates, today)
                THEN Respond(p, [req EXCEPT !.dup = TRUE], "already")
                ELSE IF checkInStreakBroken(completedDates, previousStreak, today)
                THEN Goto(p, run, "A_alert")
                ELSE Goto(p, run, "A_update")
  /\ UNCHANGED <<clock, db>>

\* await sendStreakEndAlert(req.user.uid, habit.name, previousStreak)
HabitCheckIn_alert(p) ==
  /\ procs[p].pc = "A_alert"
  /\ alerts' = sendStreakEndAlert(procs[p].caller, procs[p].habitId,
                                  procs[p].previousStreak)
  /\ Goto(p, [procs[p] EXCEPT !.alerted = procs[p].previousStreak], "A_update")
  /\ UNCHANGED <<clock, habits, checkins, users, achievements, notifications>>

\* await habitRef.update({completedDates, streak, updatedAt, lastCheckIn});
\* the user's lastActivity (not a field of the model) is written after it,
\* and the response carries the new streak.
HabitCheckIn_update(p) ==
  /\ procs[p].pc = "A_update"
  /\ habits' = [habits EXCEPT ![procs[p].habitId] =
                  checkInUpdate(@, procs[p].completedDates, procs[p].date,
                                procs[p].newStreak)]
  /\ Respond(p, [procs[p] EXCEPT !.accepted = TRUE], "ok")
  /\ UNCHANGED <<clock, checkins, users, achievements, notifications, alerts>>

----------------------------------------------------------------------------
(* PATCH /habits/:id/update, /pause and /archive: the habit is read and    *)
(* checked (404, 403), then updated.                                       *)

\* The frequencies a habit is updated to: daily, weekly on the day of the
\* week of day 1, and a rule of a type that is not known.
Frequencies ==
  {Daily, [type |-> "weekly", days |-> {DayOfWeek(1)}],
   [type |-> "hourly", days |-> {}]}

\* The habit is read: 404 when it is missing, 403 when it is not the caller's.
HabitRead(p, req, id, pc) ==
  IF id \notin DOMAIN habits
  THEN Respond(p, [IdleProc EXCEPT !.op = req.op], "notFound")
  ELSE IF habits[id].userId # req.caller
  THEN Respond(p, [IdleProc EXCEPT !.op = req.op], "unauthorized")
  ELSE Goto(p, req, pc)

HabitUpdate(p, caller, id, frequency) ==
  /\ procs[p].op = "idle"
  /\ HabitRead(p, [IdleProc EXCEPT !.op = "habitUpdate", !.caller = caller,
                                   !.habitId = id, !.frequency = frequency],
               id, "U_update")
  /\ UNCHANGED <<clock, db>>

\* await habitRef.update(updateData)
HabitUpdate_update(p) ==
  /\ procs[p].pc = "U_update"
  /\ habits' = [habits EXCEPT ![procs[p].habitId].frequency = procs[p].frequency]
  /\ Respond(p, procs[p], "ok")
  /\ UNCHANGED <<clock, checkins, users, achievements, notifications, alerts>>

HabitPause(p, caller, id) ==
  /\ procs[p].op = "idle"
  /\ HabitRead(p, [IdleProc EXCEPT !.op = "habitPause", !.caller = caller,
                                   !.habitId = id,
                                   !.newPaused = IF id \in DOMAIN habits
                                                 THEN ~habits[id].paused
                                                 ELSE FALSE],
               id, "P_update")
  /\ UNCHANGED <<clock, db>>

\* A toggle that writes the new value to archived as well.
HabitPause_update_both(p) ==
  /\ procs[p].pc = "P_update"
  /\ habits' = [habits EXCEPT ![procs[p].habitId].paused = procs[p].newPaused,
                              ![procs[p].habitId].archived = procs[p].newPaused]
  /\ Respond(p, procs[p], "ok")
  /\ UNCHANGED <<clock, checkins, users, achievements, notifications, alerts>>

\* await habitRef.update({paused: !habit.paused, updatedAt})
HabitPause_update(p) ==
  /\ procs[p].pc = "P_update"
  /\ habits' = [habits EXCEPT ![procs[p].habitId].paused = procs[p].newPaused]
  /\ Respond(p, procs[p], "ok")
  /\ UNCHANGED <<clock, checkins, users, achievements, notifications, alerts>>

HabitArchive(p, caller, id) ==
  /\ procs[p].op = "idle"
  /\ HabitRead(p, [IdleProc EXCEPT !.op = "habitArchive", !.caller = caller,
                                   !.habitId = id],
               id, "R_update")
  /\ UNCHANGED <<clock, db>>

\* await habitRef.update({archived: true, paused: true, updatedAt})
HabitArchive_update(p) ==
  /\ procs[p].pc = "R_update"
  /\ habits' = [habits EXCEPT ![procs[p].habitId].archived = TRUE,
                              ![procs[p].habitId].paused = TRUE]
  /\ Respond(p, procs[p], "ok")
  /\ UNCHANGED <<clock, checkins, users, achievements, notifications, alerts>>

----------------------------------------------------------------------------
(* DELETE /user/deactivate: the habits of the user are archived in one     *)
(* batch, then the user document is marked.                                *)

\* habitsSnapshot = await db.collection('habits').where('userId', '==', uid).get()
Deactivate(p, caller) ==
  /\ procs[p].op = "idle"
  /\ Goto(p, [IdleProc EXCEPT !.op = "deactivate", !.caller = caller,
                              !.docs = {h \in DOMAIN habits :
                                          habits[h].userId = caller}],
          "D_commit")
  /\ UNCHANGED <<clock, db>>

\* await batch.commit(): {archived: true, paused: true} for every habit found
Deactivate_commit(p) ==
  /\ procs[p].pc = "D_commit"
  /\ habits' = [h \in DOMAIN habits |->
                  IF h \in procs[p].docs
                  THEN [habits[h] EXCEPT !.archived = TRUE, !.paused = TRUE]
                  ELSE habits[h]]
  /\ Goto(p, procs[p], "D_user")
  /\ UNCHANGED <<clock, checkins, users, achievements, notifications, alerts>>

\* await db.collection('users').doc(uid).update({deactivated: true, ...}),
\* which fails when the user document does not exist (answered with 500).
Deactivate_user(p) ==
  /\ procs[p].pc = "D_user"
  /\ IF users[procs[p].caller].exists
     THEN /\ users' = [users EXCEPT ![procs[p].caller].deactivated = TRUE]
          /\ Respond(p, procs[p], "ok")
     ELSE /\ users' = users
          /\ Respond(p, procs[p], "error")
  /\ UNCHANGED <<clock, habits, checkins, achievements, notifications, alerts>>

----------------------------------------------------------------------------
(* The streak service.  isDateValidForHabit and updateStreak are imported   *)
(* by the check-in route from services/streakService.js; they are modelled  *)
(* from their contract: the update is one atomic check-and-set of the habit *)
(* document.                                                                *)

\* daily: every date is valid; weekly: the dates whose day of the week is in
\* the rule's days; any other rule: none.
isDateValidForHabit(habit, date) ==
  CASE habit.frequency.type = "daily" -> TRUE
    [] habit.frequency.type = "weekly" -> DayOfWeek(date) \in habit.frequency.days
    [] OTHER -> FALSE

updateStreak(habit, date) ==
  IF Includes(habit.completedDates, date)
  THEN [habit |-> habit, currentStreak |-> habit.streak, updated |-> FALSE,
        broken |-> FALSE]
  ELSE LET previousStreak == habit.streak
           continues == Includes(habit.completedDates, date - 1)
           newStreak == IF continues THEN previousStreak + 1 ELSE 1
       IN [habit |-> [habit EXCEPT
                        !.streak = newStreak,
                        !.longestStreak = Max(habit.longestStreak, newStreak),
                        !.completedDates = Append(habit.completedDates, date)],
           currentStreak |-> newStreak, updated |-> TRUE,
           broken |-> ~continues /\ previousStreak > 0]

----------------------------------------------------------------------------
(* addXP and handleLevelUp.  The calls nest: addXP -> handleLevelUp ->      *)
(* addXP(LEVEL_UP) -> ...; depth counts the handleLevelUp calls that are    *)
(* open.  An outer call has nothing left to do but return once the inner    *)
(* one is back, so a handler keeps the locals of the innermost call and the *)
(* return value of the outermost one (ret).                                 *)

\* "Calculate new level": the loop from the highest threshold down.
RECURSIVE levelLoop(_, _, _)
levelLoop(i, newXP, newLevel) ==
  IF i < 1 THEN newLevel
  ELSE IF newXP >= LEVEL_XP_REQUIREMENTS[i] THEN i
  ELSE levelLoop(i - 1, newXP, newLevel)

\* A level that is never recomputed.
addXPNewLevel_kept(currentLevel, newXP) ==
  currentLevel

addXPNewLevel(currentLevel, newXP) ==
  levelLoop(Len(LEVEL_XP_REQUIREMENTS), newXP, currentLevel)

\* user.xp || 0 and user.level || 1
currentXPOf(user) == user.xp
currentLevelOf(user) == IF user.level = 0 THEN 1 ELSE user.level

\* An update that writes the xp alone.
addXPUpdates_xpOnly(user, newXP, newLevel) ==
  [user EXCEPT !.xp = newXP]

\* const updates = {xp: newXP, level: newLevel, updatedAt}
addXPUpdates(user, newXP, newLevel) ==
  [user EXCEPT !.xp = newXP, !.level = newLevel]

\* A result that reports a level-up whenever the level has not dropped.
addXPResult_atLeast(newXP, newLevel, currentLevel) ==
  [xp |-> newXP, level |-> newLevel, levelUp |-> newLevel >= currentLevel]

\* return {xp: newXP, level: newLevel, levelUp: newLevel > currentLevel}
addXPResult(newXP, newLevel, currentLevel) ==
  [xp |-> newXP, level |-> newLevel, levelUp |-> newLevel > currentLevel]

\* A level-up that is recorded as an achievement of another type.
levelAchievement_untyped(userId, newLevel) ==
  createAchievementData(userId, "badge", newLevel, "none", XP_VALUES_LEVEL_UP)

\* handleLevelUp: the achievement {type: 'level', metadata: {level: newLevel}}
levelAchievement(userId, newLevel) ==
  createAchievementData(userId, "level", newLevel, "none", XP_VALUES_LEVEL_UP)

\* addXP(userId, amount) is called: the handler waits for userRef.get().
CallAddXP(req, site, amount) ==
  [req EXCEPT !.site = site, !.amount = amount, !.depth = 0, !.ret = NoRet,
              !.pc = "X_get"]

\* checkAchievements is called: the first query it waits for.
CallCheckAchievements(req) ==
  [req EXCEPT !.site = "none", !.pending = <<>>,
              !.pc = IF req.streakResult # 0 THEN "C_streakQ" ELSE "C_countQ"]

\* checkAchievements returns the list: to the route, which does not look at
\* it, or to the caller that called it on its own.
ReturnAchievements(req, list, resp) ==
  IF req.op = "checkAchievements"
  THEN [req EXCEPT !.pending = <<>>, !.unlocked = list, !.pc = "done", !.resp = resp]
  ELSE [req EXCEPT !.pending = <<>>, !.pc = "B_user"]

\* The loop "for (const achievement of achievements)": the next achievement
\* is saved, or checkAchievements returns the achievements.
NextAchievement(req) ==
  IF req.pending # <<>>
  THEN [req EXCEPT !.site = "none", !.pc = "C_addAch"]
  ELSE ReturnAchievements([req EXCEPT !.site = "none"], req.unlocked, "ok")

\* The queries are answered and the array of new achievements is complete.
SaveAchievements(req) ==
  NextAchievement([req EXCEPT !.unlocked = IF req.op = "checkAchievements"
                                           THEN req.pending ELSE <<>>])

\* The outermost addXP has returned to its caller.
AfterAddXP(req) ==
  CASE req.site = "checkin" -> CallCheckAchievements(req)
    [] req.site = "achievement" ->
         NextAchievement([req EXCEPT !.pending = Tail(req.pending)])
    [] OTHER -> [req EXCEPT !.pc = "done", !.resp = "ok"]

\* The outermost addXP has thrown ('User not found'): the route's
\* try/catch around addXP and checkAchievements, the catch of
\* checkAchievements (which returns []), or the direct caller.
AfterAddXPThrows(req) ==
  CASE req.site = "checkin" -> [req EXCEPT !.pc = "B_user"]
    [] req.site = "achievement" -> ReturnAchievements(req, <<>>, "caught")
    [] OTHER -> [req EXCEPT !.pc = "done", !.resp = "error"]

\* userDoc = await userRef.get(); then newXP and newLevel are computed.
addXP_get(p) ==
  /\ procs[p].pc = "X_get"
  /\ LET req == procs[p]
         user == users[req.caller]
     IN IF ~user.exists
        THEN \* thrown; handleLevelUp catches what its addXP throws
             procs' = [procs EXCEPT ![p] =
                         IF req.depth > 0 THEN AfterAddXP(req)
                         ELSE AfterAddXPThrows(req)]
        ELSE LET currentXP == currentXPOf(user)
                 currentLevel == currentLevelOf(user)
                 newXP == currentXP + req.amount
             IN procs' = [procs EXCEPT ![p] =
                            [req EXCEPT !.currentLevel = currentLevel,
                                        !.newXP = newXP,
                                        !.newLevel = addXPNewLevel(currentLevel, newXP),
                                        !.pc = "X_update"]]
  /\ UNCHANGED <<clock, db>>

\* await userRef.update(updates); then "Check for level up", or return.
addXP_update(p) ==
  /\ procs[p].pc = "X_update"
  /\ LET req == procs[p]
         levelUp == req.newLevel > req.currentLevel
         out == IF req.depth = 0
                THEN [req EXCEPT !.ret = addXPResult(req.newXP, req.newLevel,
                                                     req.currentLevel)]
                ELSE req
     IN /\ users' = [users EXCEPT ![req.caller] =
                       addXPUpdates(@, req.newXP, req.newLevel)]
        /\ procs' = [procs EXCEPT ![p] =
                       IF levelUp THEN [out EXCEPT !.pc = "L_addAch"]
                       ELSE AfterAddXP(out)]
  /\ UNCHANGED <<clock, habits, checkins, achievements, notifications, alerts>>

\* handleLevelUp: await db.collection('achievements').add(achievement)
handleLevelUp_achievement(p) ==
  /\ procs[p].pc = "L_addAch"
  /\ achievements' = Append(achievements,
                            levelAchievement(procs[p].caller, procs[p].newLevel))
  /\ Goto(p, procs[p], "L_addNotif")
  /\ UNCHANGED <<clock, habits, checkins, users, notifications, alerts>>

\* handleLevelUp: await db.collection('notifications').add(notification);
\* then "Award XP for level up": addXP(userId, XP_VALUES.LEVEL_UP).
handleLevelUp_notification(p) ==
  /\ procs[p].pc = "L_addNotif"
  /\ procs[p].depth < MaxDepth
  /\ notifications' = Append(notifications,
        createNotificationData(procs[p].caller, "Level Up!"))
  /\ procs' = [procs EXCEPT ![p] =
                 [@ EXCEPT !.depth = @ + 1, !.amount = XP_VALUES_LEVEL_UP,
                           !.pc = "X_get"]]
  /\ UNCHANGED <<clock, habits, checkins, users, achievements, alerts>>

\* addXP called on its own (the function is exported by the service).
AddXP(p, userId, amount) ==
  /\ procs[p].op = "idle"
  /\ users[userId].xp <= MaxXP
  /\ procs' = [procs EXCEPT ![p] =
                 CallAddXP([IdleProc EXCEPT
                              !.op = "addXP", !.caller = userId,
                              !.xp0 = currentXPOf(users[userId]),
                              !.level0 = currentLevelOf(users[userId]),
                              !.amount0 = amount,
                              !.achievements0 = Len(achievements),
                              !.notifications0 = Len(notifications)],
                           "direct", amount)]
  /\ UNCHANGED <<clock, db>>

----------------------------------------------------------------------------
(* checkAchievements *)

HasAchievement(userId, type, key, habitId) ==
  \E i \in 1..Len(achievements) :
     /\ achievements[i].userId = userId
     /\ achievements[i].type = type
     /\ achievements[i].key = key
     /\ (habitId # "any" => achievements[i].habitId = habitId)

streakXpReward(streak) ==
  IF streak >= 100 THEN XP_VALUES_STREAK_100
  ELSE IF streak >= 30 THEN XP_VALUES_STREAK_30
  ELSE XP_VALUES_STREAK_7

\* A check that does not look for the achievement the user holds.
checkStreakAchievements_unchecked(userId, streak, habitId) ==
  IF STREAK_MILESTONES(streak)
  THEN <<createAchievementData(userId, "streak", streak, habitId,
                               streakXpReward(streak))>>
  ELSE <<>>

\* A check that takes every streak for a milestone.
checkStreakAchievements_anyStreak(userId, streak, habitId) ==
  IF HasAchievement(userId, "streak", streak, "any") THEN <<>>
  ELSE <<createAchievementData(userId, "streak", streak, habitId,
                               streakXpReward(streak))>>

\* checkStreakAchievements: nothing when the user holds a streak achievement
\* with this metadata.streak, else one achievement if the streak is a milestone.
checkStreakAchievements(userId, streak, habitId) ==
  IF HasAchievement(userId, "streak", streak, "any") THEN <<>>
  ELSE IF STREAK_MILESTONES(streak)
  THEN <<createAchievementData(userId, "streak", streak, habitId,
                               streakXpReward(streak))>>
  ELSE <<>>

\* checkCompletionAchievements: the number of completed check-ins of the habit
totalCompletions(userId, habitId) ==
  Cardinality({i \in 1..Len(checkins) :
                 /\ checkins[i].userId = userId
                 /\ checkins[i].habitId = habitId
                 /\ checkins[i].completed})

\* A milestone that is reached by every count from its number on.
IsCompletionMilestone_atLeast(n) == \E i \in 1..Len(milestones) : n >= milestones[i]

IsCompletionMilestone(n) == \E i \in 1..Len(milestones) : milestones[i] = n

completionXpReward(milestone) ==
  IF milestone >= 100 THEN 100 ELSE IF milestone >= 50 THEN 50 ELSE 25

\* the query of checkStreakAchievements is answered
checkAchievements_streak(p) ==
  /\ procs[p].pc = "C_streakQ"
  /\ LET req == procs[p]
     IN procs' = [procs EXCEPT ![p] =
                    [req EXCEPT !.pending = checkStreakAchievements(
                                   req.caller, req.streakResult, req.habitId),
                                !.pc = "C_countQ"]]
  /\ UNCHANGED <<clock, db>>

\* the query for the completed check-ins is answered
checkAchievements_count(p) ==
  /\ procs[p].pc = "C_countQ"
  /\ LET req == procs[p]
         n == totalCompletions(req.caller, req.habitId)
     IN procs' = [procs EXCEPT ![p] =
                    IF IsCompletionMilestone(n)
                    THEN [req EXCEPT !.total = n, !.pc = "C_existQ"]
                    ELSE SaveAchievements([req EXCEPT !.total = n])]
  /\ UNCHANGED <<clock, db>>

\* "Check if already unlocked": the query is answered
checkAchievements_existing(p) ==
  /\ procs[p].pc = "C_existQ"
  /\ LET req == procs[p]
         found == HasAchievement(req.caller, "completion", req.total, req.habitId)
         achievement == createAchievementData(req.caller, "completion", req.total,
                                              req.habitId,
                                              completionXpReward(req.total))
     IN procs' = [procs EXCEPT ![p] =
                    SaveAchievements(
                      IF found THEN req
                      ELSE [req EXCEPT !.pending = Append(@, achievement)])]
  /\ UNCHANGED <<clock, db>>

\* await db.collection('achievements').add(achievement)
checkAchievements_add(p) ==
  /\ procs[p].pc = "C_addAch"
  /\ achievements' = Append(achievements, Head(procs[p].pending))
  /\ Goto(p, procs[p], "C_addNotif")
  /\ UNCHANGED <<clock, habits, checkins, users, notifications, alerts>>

\* await db.collection('notifications').add(notification); then "Award XP"
checkAchievements_notify(p) ==
  /\ procs[p].pc = "C_addNotif"
  /\ notifications' = Append(notifications,
        createNotificationData(procs[p].caller, "achievement"))
  /\ procs' = [procs EXCEPT ![p] =
                 CallAddXP(@, "achievement", Head(@.pending).xpReward)]
  /\ UNCHANGED <<clock, habits, checkins, users, achievements, alerts>>

\* checkAchievements called on its own (the function is exported by the
\* service), with the context {type: 'check_in', habitId, streak}.
CheckAchievements(p, userId, habitId, streak) ==
  /\ procs[p].op = "idle"
  /\ procs' = [procs EXCEPT ![p] =
                 CallCheckAchievements([IdleProc EXCEPT
                    !.op = "checkAchievements", !.caller = userId,
                    !.habitId = habitId, !.streakResult = streak,
                    !.xp0 = currentXPOf(users[userId]),
                    !.achievements0 = Len(achievements),
                    !.notifications0 = Len(notifications)])]
  /\ UNCHANGED <<clock, db>>

----------------------------------------------------------------------------
(* POST /checkins *)

NewCheckIns == {i \in 1..Len(checkins) : checkins[i].date >= 1}

\* The request arrives: the habit is read and the request validated.
\* date = 0 is a request without a date, which takes the current day.
PostCheckIn(p, caller, id, date, completed) ==
  /\ procs[p].op = "idle"
  /\ Cardinality(NewCheckIns) < MaxCheckIns
  /\ LET checkInDate == IF date = 0 THEN clock ELSE date
         req == [IdleProc EXCEPT !.op = "postCheckIn", !.caller = caller,
                                 !.habitId = id, !.date = checkInDate,
                                 !.completed = completed]
     IN IF id \notin DOMAIN habits
        THEN Respond(p, [req EXCEPT !.date = 0, !.completed = "omitted"], "notFound")
        ELSE LET habit == habits[id]
                 valid == [req EXCEPT !.dup = /\ completed # "false"
                                              /\ Includes(habit.completedDates,
                                                          checkInDate)]
             IN IF habit.userId # caller
                THEN Respond(p, [req EXCEPT !.date = 0, !.completed = "omitted"],
                             "unauthorized")
                ELSE IF habit.status # "active"
                THEN Respond(p, req, "inactive")
                ELSE IF ~isDateValidForHabit(habit, checkInDate)
                THEN Respond(p, req, "invalidDate")
                ELSE IF Includes(habit.completedDates, checkInDate)
                        /\ completed = "true"
                THEN Respond(p, valid, "already")
                ELSE Goto(p, valid, "B_add")
  /\ UNCHANGED <<clock, db>>

\* A route that awards the xp before it has saved anything.
PostCheckIn_add_xpFirst(p) ==
  /\ procs[p].pc = "B_add"
  /\ procs' = [procs EXCEPT ![p] = CallAddXP(procs[p], "checkin", XP_CHECK_IN)]
  /\ UNCHANGED <<clock, db>>

\* A route that updates the streak whatever completed is.
PostCheckIn_add_always(p) ==
  /\ procs[p].pc = "B_add"
  /\ LET req == procs[p]
     IN /\ checkins' = Append(checkins,
              createCheckInData(req.habitId, req.caller, req.date, req.completed))
        /\ Goto(p, req, "B_streak")
  /\ UNCHANGED <<clock, habits, users, achievements, notifications, alerts>>

\* await db.collection('checkins').add(checkInData)
PostCheckIn_add(p) ==
  /\ procs[p].pc = "B_add"
  /\ LET req == procs[p]
     IN /\ checkins' = Append(checkins,
              createCheckInData(req.habitId, req.caller, req.date, req.completed))
        /\ Goto(p, req, IF req.completed # "false" THEN "B_streak" ELSE "B_user")
  /\ UNCHANGED <<clock, habits, users, achievements, notifications, alerts>>

\* streakResult = await updateStreak(habitId, userId, checkInDate); then
\* addXP(userId, 10, 'check_in') is called.
PostCheckIn_updateStreak(p) ==
  /\ procs[p].pc = "B_streak"
  /\ LET req == procs[p]
         r == updateStreak(habits[req.habitId], req.date)
     IN /\ habits' = [habits EXCEPT ![req.habitId] = r.habit]
        /\ alerts' = IF r.broken
                     THEN sendStreakEndAlert(req.caller, req.habitId,
                                             habits[req.habitId].streak)
                     ELSE alerts
        /\ procs' = [procs EXCEPT ![p] =
                       CallAddXP([req EXCEPT
                                    !.streakResult = r.currentStreak,
                                    !.previousStreak = habits[req.habitId].streak,
                                    !.newStreak = r.currentStreak,
                                    !.precedes = Includes(
                                       habits[req.habitId].completedDates,
                                       req.date - 1),
                                    !.accepted = r.updated,
                                    !.alerted = IF r.broken
                                                THEN habits[req.habitId].streak
                                                ELSE 0],
                                 "checkin", XP_CHECK_IN)]
  /\ UNCHANGED <<clock, checkins, users, achievements, notifications>>

\* "Update user last activity": db.collection('users').doc(userId).update(...)
\* fails when the user document does not exist, which the route's outer
\* catch answers with 500.
PostCheckIn_user(p) ==
  /\ procs[p].pc = "B_user"
  /\ Respond(p, procs[p], IF users[procs[p].caller].exists THEN "ok" ELSE "error")
  /\ UNCHANGED <<clock, db>>

----------------------------------------------------------------------------
(* PUT /checkins/:id and DELETE /checkins/:id.  A check-in document is      *)
(* named by its place in the collection, which does not move while a       *)
(* single request is handled.                                              *)

\* The bodies of PUT /checkins/:id: empty, or one field of the document.
Updates ==
  {NoUpdates}
  \cup {[NoUpdates EXCEPT !.completed = c] : c \in {"true", "false"}}
  \cup {[NoUpdates EXCEPT !.userId = u] : u \in Users}
  \cup {[NoUpdates EXCEPT !.habitId = h] : h \in HabitIds}

\* update({...updates, updatedAt}): the fields of the body replace those of
\* the document.
ApplyUpdates(doc, updates) ==
  [doc EXCEPT
     !.userId = IF updates.userId = "none" THEN @ ELSE updates.userId,
     !.habitId = IF updates.habitId = "none" THEN @ ELSE updates.habitId,
     !.completed = IF updates.completed = "none" THEN @
                   ELSE updates.completed = "true"]

\* The collection without its i-th document.
DeleteDoc(docs, i) ==
  [j \in 1..(Len(docs) - 1) |-> IF j < i THEN docs[j] ELSE docs[j + 1]]

\* The check-in is read: 404 when it is missing, 403 when it is not the
\* caller's.
CheckInRead(p, req, pc) ==
  IF req.docId \notin 1..Len(checkins)
  THEN Respond(p, req, "notFound")
  ELSE IF checkins[req.docId].userId # req.caller
  THEN Respond(p, req, "unauthorized")
  ELSE Goto(p, req, pc)

PutCheckIn(p, caller, id, updates) ==
  /\ procs[p].op = "idle"
  /\ CheckInRead(p, [IdleProc EXCEPT !.op = "putCheckIn", !.caller = caller,
                                     !.docId = id, !.updates = updates],
                 "T_update")
  /\ UNCHANGED <<clock, db>>

\* await db.collection('checkins').doc(id).update({...updates, updatedAt})
PutCheckIn_update(p) ==
  /\ procs[p].pc = "T_update"
  /\ checkins' = [checkins EXCEPT ![procs[p].docId] =
                    ApplyUpdates(@, procs[p].updates)]
  /\ Respond(p, procs[p], "ok")
  /\ UNCHANGED <<clock, habits, users, achievements, notifications, alerts>>

DeleteCheckIn(p, caller, id) ==
  /\ procs[p].op = "idle"
  /\ CheckInRead(p, [IdleProc EXCEPT !.op = "deleteCheckIn", !.caller = caller,
                                     !.docId = id],
                 "E_delete")
  /\ UNCHANGED <<clock, db>>

\* await db.collection('checkins').doc(id).delete()
DeleteCheckIn_delete(p) ==
  /\ procs[p].pc = "E_delete"
  /\ checkins' = DeleteDoc(checkins, procs[p].docId)
  /\ Respond(p, procs[p], "ok")
  /\ UNCHANGED <<clock, habits, users, achievements, notifications, alerts>>

----------------------------------------------------------------------------
(* The environment *)

\* Midnight passes.  No handler reads the clock after its first step, so a
\* midnight during a request is the same as one just after it.
Tick ==
  /\ clock < MaxDay
  /\ \A p \in Procs : procs[p].op = "idle"
  /\ clock' = clock + 1
  /\ UNCHANGED <<db, procs>>

\* A week passes at once: the clock is on the same day of the next week.
TickWeek ==
  /\ clock + 7 <= 1 + 7 * MaxWeeks
  /\ \A p \in Procs : procs[p].op = "idle"
  /\ clock' = clock + 7
  /\ UNCHANGED <<db, procs>>

\* The response is delivered and the handler is gone.
Finish(p) ==
  /\ procs[p].pc = "done"
  /\ procs' = [procs EXCEPT ![p] = IdleProc]
  /\ UNCHANGED <<clock, db>>

----------------------------------------------------------------------------

\* A check-in request arrives, through either route.
Arrive(p) ==
  \/ \E caller \in Users, id \in HabitIds : HabitCheckIn(p, caller, id)
  \/ \E caller \in Users, id \in HabitIds, date \in 0..MaxDay,
        completed \in {"true", "false", "omitted"} :
        PostCheckIn(p, caller, id, date, completed)

\* The steps of POST /checkins after its first, and of the checkAchievements
\* it calls.
PostCheckInSteps(p) ==
  \/ PostCheckIn_add(p)
  \/ PostCheckIn_updateStreak(p)
  \/ PostCheckIn_user(p)
  \/ checkAchievements_streak(p)
  \/ checkAchievements_count(p)
  \/ checkAchievements_existing(p)
  \/ checkAchievements_add(p)
  \/ checkAchievements_notify(p)

\* The steps of a check-in after its first.
CheckIn(p) ==
  \/ HabitCheckIn_alert(p)
  \/ HabitCheckIn_update(p)
  \/ PostCheckInSteps(p)

\* A check-in request of the owner for the current day arrives.
ArriveToday(p) ==
  \/ HabitCheckIn(p, "u1", "h1")
  \/ \E completed \in {"true", "omitted"} : PostCheckIn(p, "u1", "h1", 0, completed)

\* addXP, called by a check-in or on its own.
XP(p) ==
  \/ addXP_get(p)
  \/ addXP_update(p)
  \/ handleLevelUp_achievement(p)
  \/ handleLevelUp_notification(p)

\* Two requests are handled concurrently: a request is given to handler 1
\* when that is free, else to handler 2.
Next ==
  \/ ArriveToday(1)
  \/ procs[1].op # "idle" /\ ArriveToday(2)
  \/ \E p \in Procs : CheckIn(p) \/ XP(p) \/ Finish(p)
  \/ Tick

Spec == Init /\ [][Next]_vars

\* One request at a time.
NextSeq ==
  \/ Arrive(1) \/ CheckIn(1) \/ XP(1) \/ Finish(1)
  \/ Tick

SpecSeq == Init /\ [][NextSeq]_vars

\* addXP called on its own, one call at a time.
NextXP ==
  \/ \E userId \in Users, amount \in XPAmounts : AddXP(1, userId, amount)
  \/ XP(1) \/ Finish(1)

SpecXP == Init /\ [][NextXP]_vars

\* The same, where every database operation that is awaited completes.
SpecXPFair == SpecXP /\ WF_vars(XP(1))

\* Two calls of addXP for the user u1, made by two callers at once.
NextXP2 ==
  \/ \E p \in Procs, amount \in XPAmounts : AddXP(p, "u1", amount)
  \/ \E p \in Procs : XP(p)

SpecXP2 == Init /\ [][NextXP2]_vars

\* Two calls of addXP one after the other, with any amount, negative ones
\* included.
NegativeAmounts == {-10, -150}

NextXPAny ==
  \/ \E p \in Procs, userId \in Users, amount \in XPAmounts \cup NegativeAmounts :
        /\ \A q \in Procs : procs[q].pc \in {"idle", "done"}
        /\ AddXP(p, userId, amount)
  \/ \E p \in Procs : XP(p)

SpecXPAny == Init /\ [][NextXPAny]_vars

\* A request to change a habit arrives.
ArriveHabit(p) ==
  \/ \E caller \in Users, id \in HabitIds, frequency \in Frequencies :
        HabitUpdate(p, caller, id, frequency)
  \/ \E caller \in Users, id \in HabitIds : HabitPause(p, caller, id)
  \/ \E caller \in Users, id \in HabitIds : HabitArchive(p, caller, id)
  \/ \E caller \in Users : Deactivate(p, caller)

\* The update of a habit by such a request.
Habit(p) ==
  \/ HabitUpdate_update(p)
  \/ HabitPause_update(p)
  \/ HabitArchive_update(p)
  \/ Deactivate_commit(p)
  \/ Deactivate_user(p)

\* Check-ins and changes of the habit on one day, one request at a time.
NextHabit ==
  \/ Arrive(1) \/ CheckIn(1) \/ XP(1) \/ Finish(1)
  \/ ArriveHabit(1) \/ Habit(1)

SpecHabit == Init /\ [][NextHabit]_vars

\* The streaks and habits checkAchievements is called with on its own.
Streaks == {0, 6, 7, 200}
ContextHabits == {"h1", "h2"}

\* Check-ins of the owner for the current day through POST /checkins and
\* calls of checkAchievements on its own, one at a time.
NextCA ==
  \/ \E completed \in {"true", "omitted"} : PostCheckIn(1, "u1", "h1", 0, completed)
  \/ PostCheckInSteps(1) \/ XP(1) \/ Finish(1)
  \/ \E userId \in Users, habitId \in ContextHabits, streak \in Streaks :
        /\ Len(achievements) < MaxAchievements
        /\ CheckAchievements(1, userId, habitId, streak)

SpecCA == Init /\ [][NextCA]_vars

\* The owner sets the recurrence rule of the habit and checks in for the
\* current day, week after week, one request at a time.
NextWeekly ==
  \/ \E frequency \in Frequencies : HabitUpdate(1, "u1", "h1", frequency)
  \/ HabitUpdate_update(1)
  \/ ArriveToday(1) \/ CheckIn(1) \/ XP(1) \/ Finish(1)
  \/ TickWeek

SpecWeekly == Init /\ [][NextWeekly]_vars

\* The ids PUT and DELETE are called with: the first and the last check-in
\* of the collection, and one that names no document.
CheckInIds == {1, Len(checkins), Len(checkins) + 1}

\* A request on a check-in arrives.
ArriveCheckIn(p) ==
  \/ \E caller \in Users, id \in CheckInIds, updates \in Updates :
        PutCheckIn(p, caller, id, updates)
  \/ \E caller \in Users, id \in CheckInIds : DeleteCheckIn(p, caller, id)

\* Check-ins of the owner for the current day, and updates and deletions of
\* check-ins by any user: up to two requests, one after the other, each by
\* a handler of its own.
NextCheckIns ==
  \/ \E p \in Procs :
        /\ \A q \in Procs : procs[q].pc \in {"idle", "done"}
        /\ \/ ArriveToday(p)
           \/ PostCheckIn(p, "u1", "h1", 0, "false")
           \/ ArriveCheckIn(p)
  \/ \E p \in Procs :
        \/ HabitCheckIn_update(p) \/ PostCheckInSteps(p) \/ XP(p)
        \/ PutCheckIn_update(p) \/ DeleteCheckIn_delete(p)

SpecCheckIns == Init /\ [][NextCheckIns]_vars

----------------------------------------------------------------------------
(* Properties of the streak *)

\* The completed dates are a run of consecutive days, each the day after the
\* one before it.
ConsecutiveRun(dates) ==
  /\ Len(dates) > 0
  /\ \A i \in 1..(Len(dates) - 1) : dates[i + 1] = dates[i] + 1

\* The habit was created within the behaviour (streak 0, no completed date),
\* and every check-in since was on the day after the previous one.
FreshRun(h) ==
  /\ ConsecutiveRun(habits[h].completedDates)
  /\ habits[h].completedDates[1] >= 1

\* A handler of a check-in that asks for a completed check-in in so many
\* words: POST /habits/:id/checkIn, or POST /checkins with completed: true.
ExplicitlyCompleted(p) ==
  \/ procs[p].op = "habitCheckIn"
  \/ procs[p].op = "postCheckIn" /\ procs[p].completed = "true"

\* C1: a habit that starts with streak 0 and no completed date has, after N
\* accepted completed check-ins on N consecutive days, through either route,
\* streak N and longestStreak at least N.
C1_ConsecutiveCheckIns ==
  \A h \in DOMAIN habits :
     FreshRun(h) =>
        /\ habits[h].streak = Len(habits[h].completedDates)
        /\ habits[h].longestStreak >= Len(habits[h].completedDates)

\* C2: in every reachable state the streak of every habit is at most its
\* longestStreak.
C2_StreakAtMostLongest ==
  \A h \in DOMAIN habits : habits[h].streak <= habits[h].longestStreak

\* C3: a completed check-in (completed true or omitted) for a date that is
\* already among the completed dates is rejected as already checked in, and
\* the request changes no document.
C3_DuplicateRejected ==
  [][\A p \in Procs :
        procs'[p].dup => /\ procs'[p].resp = "already"
                         /\ db' = db]_vars

\* C4: of two check-in requests for the same habit and the same date that
\* are handled concurrently, at most one is accepted.
C4_AtMostOneAccepted ==
  \A p, q \in Procs :
     (/\ p # q
      /\ procs[p].pc = "done" /\ procs[q].pc = "done"
      /\ ExplicitlyCompleted(p) /\ ExplicitlyCompleted(q)
      /\ procs[p].habitId = procs[q].habitId
      /\ procs[p].date = procs[q].date)
     => ~(procs[p].resp = "ok" /\ procs[q].resp = "ok")

\* The last call of sendStreakEndAlert was for this handler's habit and
\* carried the streak the handler found.
AlertedFor(req) ==
  /\ alerts # <<>>
  /\ alerts[Len(alerts)].type = "streak_end"
  /\ alerts[Len(alerts)].userId = req.caller
  /\ alerts[Len(alerts)].habitId = req.habitId
  /\ alerts[Len(alerts)].previousStreak = req.previousStreak

\* What an accepted check-in did to the streak.
StreakRule(req) ==
  /\ (~req.precedes /\ req.previousStreak > 0) =>
        /\ req.newStreak = 1
        /\ req.alerted = req.previousStreak
        /\ AlertedFor(req)
  /\ req.precedes =>
        /\ req.newStreak = req.previousStreak + 1
        /\ req.alerted = 0
  /\ req.previousStreak = 0 =>
        /\ req.newStreak = 1
        /\ req.alerted = 0
  /\ habits[req.habitId].streak = req.newStreak

\* A step that calls sendStreakEndAlert is the step of a handler whose
\* check-in found a streak and not the day before.
AlertRule ==
  alerts' # alerts =>
     \E p \in Procs :
        /\ ~procs'[p].precedes
        /\ procs'[p].previousStreak > 0
        /\ procs'[p].alerted = procs'[p].previousStreak
        /\ alerts' = sendStreakEndAlert(procs'[p].caller, procs'[p].habitId,
                                        procs'[p].previousStreak)

\* C5: an accepted check-in whose preceding day is not completed, on a habit
\* with a streak above 0, sets the streak to 1 and calls for a streak-ended
\* notification carrying the previous streak; one whose preceding day is
\* completed sets the streak to previous + 1 and calls for none; one on a
\* habit with streak 0 sets it to 1 and calls for none.
C5_StreakRule ==
  /\ [](\A p \in Procs : procs[p].accepted => StreakRule(procs[p]))
  /\ [][AlertRule]_vars

C5_Witness ==
  \E p \in Procs :
     /\ procs[p].accepted
     /\ procs[p].op = "habitCheckIn"
     /\ ~procs[p].precedes
     /\ procs[p].previousStreak = 6
     /\ procs[p].newStreak = 1
     /\ AlertedFor(procs[p])

----------------------------------------------------------------------------
(* Properties of xp and level *)

\* The level of the threshold table for an xp: the greatest i with
\* xp >= LEVEL_XP_REQUIREMENTS[i], and 1 if there is none.
TableLevel(xp) ==
  LET reached == {i \in 1..Len(LEVEL_XP_REQUIREMENTS) :
                    xp >= LEVEL_XP_REQUIREMENTS[i]}
  IN IF reached = {} THEN 1
     ELSE CHOOSE i \in reached : \A j \in reached : j <= i

\* C6: in every reachable state, between any two operations, the level of
\* every user document is the table level of its xp.
C6_LevelOfXP ==
  \A u \in Users :
     users[u].exists =>
        currentLevelOf(users[u]) = TableLevel(currentXPOf(users[u]))

C6_Witness ==
  /\ users["u1"].xp = 105
  /\ users["u1"].level = 2
  /\ \E p \in Procs : procs[p].pc = "L_addAch"

\* C7: over any interleaving of check-ins, achievement checks and addXP
\* calls, the xp of a user never decreases and the level never decreases.
C7_Monotone ==
  [][\A u \in Users :
        /\ currentXPOf(users'[u]) >= currentXPOf(users[u])
        /\ currentLevelOf(users'[u]) >= currentLevelOf(users[u])]_vars

\* The level achievements and the level-up notifications created since the
\* call of addXP.
LevelAchievementsOf(req) ==
  {i \in (req.achievements0 + 1)..Len(achievements) :
     achievements[i].type = "level" /\ achievements[i].userId = req.caller}

LevelUpNotificationsOf(req) ==
  {i \in (req.notifications0 + 1)..Len(notifications) :
     notifications[i].title = "Level Up!" /\ notifications[i].userId = req.caller}

\* A call of addXP on its own has returned normally.
Returned(req) ==
  req.op = "addXP" /\ req.pc = "done" /\ req.resp = "ok"

\* The amount of the call takes the xp across at least one threshold.
Crosses(req) ==
  TableLevel(req.xp0 + req.amount0) > req.level0

\* The level-ups of a call that takes a user of the given level to the given
\* xp: its own, and those of the level-up bonus awarded after each.
RECURSIVE LevelUps(_, _)
LevelUps(xp, level) ==
  IF TableLevel(xp) > level
  THEN 1 + LevelUps(xp + XP_VALUES_LEVEL_UP, TableLevel(xp))
  ELSE 0

\* C8 as stated: a call of addXP whose amount takes the xp across at least
\* one threshold creates exactly one level achievement and exactly one
\* level-up notification in all, the level-up bonus included, and leaves the
\* level that the table gives for the resulting xp.
C8_ExactlyOne ==
  \A p \in Procs :
     (Returned(procs[p]) /\ Crosses(procs[p])) =>
        /\ Cardinality(LevelAchievementsOf(procs[p])) = 1
        /\ Cardinality(LevelUpNotificationsOf(procs[p])) = 1
        /\ users[procs[p].caller].level = TableLevel(users[procs[p].caller].xp)

\* C8, amended: such a call creates one level achievement and one level-up
\* notification for its own level-up and one more of each for every
\* level-up bonus that crosses a further threshold (so exactly one of each
\* when the bonus crosses none); the achievements are for distinct levels,
\* the resulting xp is the xp before plus the amount plus one bonus for each
\* level-up, and the resulting level is the table level of the resulting xp.
C8_OnePerLevelUp ==
  \A p \in Procs :
     (Returned(procs[p]) /\ Crosses(procs[p])) =>
        LET req == procs[p]
            n == LevelUps(req.xp0 + req.amount0, req.level0)
            created == LevelAchievementsOf(req)
        IN /\ n >= 1
           /\ (n = 1 <=> TableLevel(req.xp0 + req.amount0 + XP_VALUES_LEVEL_UP)
                           = TableLevel(req.xp0 + req.amount0))
           /\ Cardinality(created) = n
           /\ Cardinality(LevelUpNotificationsOf(req)) = n
           /\ \A i, j \in created :
                 achievements[i].key = achievements[j].key => i = j
           /\ users[req.caller].xp = req.xp0 + req.amount0 + n * XP_VALUES_LEVEL_UP
           /\ users[req.caller].level = TableLevel(users[req.caller].xp)

C8_Witness ==
  \E p \in Procs :
     /\ Returned(procs[p])
     /\ procs[p].xp0 = 95 /\ procs[p].amount0 = 150
     /\ Cardinality(LevelAchievementsOf(procs[p])) = 2
     /\ users[procs[p].caller].level = 3

\* C9: the recursion addXP -> handleLevelUp -> addXP(level-up bonus) ends:
\* the level-ups nested in one call are never more than the threshold table
\* is long, and every call of addXP returns.
C9_Terminates ==
  /\ [](\A p \in Procs : procs[p].depth <= Len(LEVEL_XP_REQUIREMENTS))
  /\ \A p \in Procs : (procs[p].op = "addXP") ~> (procs[p].pc = "done")

C9_Witness ==
  \E p \in Procs :
     /\ procs[p].op = "addXP" /\ procs[p].pc = "done"
     /\ procs[p].depth = 2

\* C10: addXP returns the xp before the call plus the amount, the table
\* level of that xp, and levelUp exactly when that level is above the level
\* before the call.
C10_Result ==
  \A p \in Procs :
     Returned(procs[p]) =>
        /\ procs[p].ret.xp = procs[p].xp0 + procs[p].amount0
        /\ procs[p].ret.level = TableLevel(procs[p].ret.xp)
        /\ procs[p].ret.levelUp = (procs[p].ret.level > procs[p].level0)

C10_Witness ==
  \E p \in Procs :
     /\ Returned(procs[p])
     /\ procs[p].xp0 = 95 /\ procs[p].level0 = 1 /\ procs[p].amount0 = 10
     /\ procs[p].ret = [xp |-> 105, level |-> 2, levelUp |-> TRUE]

----------------------------------------------------------------------------
(* Properties of addXP and checkAchievements *)

\* C11: addXP called with a negative amount is rejected or clamped: no step
\* of such a call lowers the xp or the level of the user.
C11_NegativeAmount ==
  [][\A p \in Procs :
        (procs[p].op = "addXP" /\ procs[p].amount0 < 0) =>
           /\ currentXPOf(users'[procs[p].caller])
                 >= currentXPOf(users[procs[p].caller])
           /\ currentLevelOf(users'[procs[p].caller])
                 >= currentLevelOf(users[procs[p].caller])]_vars

----------------------------------------------------------------------------
(* Properties of the requests that are rejected *)

Rejections == {"notFound", "unauthorized", "inactive", "invalidDate"}

\* C20: a check-in request that is rejected because the habit is missing,
\* is not the caller's, is not active, or the date is not valid for the
\* frequency writes nothing: the step that answers it, and every later step
\* of its handler, leaves every collection as it is.
C20_RejectedWritesNothing ==
  [][\A p \in Procs :
        (/\ procs'[p].op \in {"habitCheckIn", "postCheckIn"}
         /\ procs'[p].resp \in Rejections)
        => db' = db]_vars

C20_Witness ==
  \E p \in Procs :
     /\ procs[p].op = "postCheckIn"
     /\ procs[p].pc = "done"
     /\ procs[p].resp = "invalidDate"
     /\ habits[procs[p].habitId].frequency.type = "weekly"
     /\ checkins = <<>>

----------------------------------------------------------------------------
(* Properties of the achievements *)

\* The achievements of a kind that the collection holds for a milestone.
StreakAchievements(userId, streak) ==
  {i \in 1..Len(achievements) :
     /\ achievements[i].type = "streak"
     /\ achievements[i].userId = userId
     /\ achievements[i].key = streak}

CompletionAchievements(userId, completions, habitId) ==
  {i \in 1..Len(achievements) :
     /\ achievements[i].type = "completion"
     /\ achievements[i].userId = userId
     /\ achievements[i].key = completions
     /\ achievements[i].habitId = habitId}

LevelAchievements(userId, level) ==
  {i \in 1..Len(achievements) :
     /\ achievements[i].type = "level"
     /\ achievements[i].userId = userId
     /\ achievements[i].key = level}

\* A call of checkAchievements on its own has returned.
CheckReturned(req) ==
  req.op = "checkAchievements" /\ req.pc = "done"

\* The achievements the collection has gained since the call.
CreatedSince(req) ==
  SubSeq(achievements, req.achievements0 + 1, Len(achievements))

\* C12: calls of checkAchievements one after the other with the same user
\* and the same streak create at most one streak achievement for that
\* streak: a call that finds one creates none, whatever habit it is for.
C12_StreakOnce ==
  /\ \A i, j \in 1..Len(achievements) :
        (/\ achievements[i].type = "streak"
         /\ achievements[j].type = "streak"
         /\ achievements[i].userId = achievements[j].userId
         /\ achievements[i].key = achievements[j].key) => i = j
  /\ \A p \in Procs :
        (/\ CheckReturned(procs[p])
         /\ \E i \in 1..procs[p].achievements0 :
               i \in StreakAchievements(procs[p].caller, procs[p].streakResult))
        => \A k \in 1..Len(CreatedSince(procs[p])) :
              CreatedSince(procs[p])[k].type # "streak"

C12_Witness ==
  \E p \in Procs :
     /\ CheckReturned(procs[p])
     /\ procs[p].streakResult = 7
     /\ procs[p].habitId = "h2"
     /\ \E i \in 1..procs[p].achievements0 :
           /\ i \in StreakAchievements(procs[p].caller, 7)
           /\ achievements[i].habitId = "h1"
     /\ CreatedSince(procs[p]) = <<>>

\* C13: in every reachable state, concurrent requests included, the
\* collection holds at most one achievement for each milestone: each streak
\* of a user, each number of completions of a habit of a user, each level
\* of a user.
C13_OnePerMilestone ==
  \A i \in 1..Len(achievements) :
     LET a == achievements[i]
     IN /\ a.type = "streak" => Cardinality(StreakAchievements(a.userId, a.key)) <= 1
        /\ a.type = "completion" =>
              Cardinality(CompletionAchievements(a.userId, a.key, a.habitId)) <= 1
        /\ a.type = "level" => Cardinality(LevelAchievements(a.userId, a.key)) <= 1

\* checkAchievements has returned without a failure: to the caller that
\* called it on its own, or to POST /checkins (which calls it for a
\* completed check-in once addXP has returned).
CheckedBy(req) ==
  \/ CheckReturned(req) /\ req.resp = "ok"
  \/ /\ req.op = "postCheckIn" /\ req.pc = "B_user"
     /\ req.completed # "false"
     /\ users[req.caller].exists

\* The completion milestones of the claim.
CompletionMilestones == {10, 25, 50, 100, 250, 500}

\* The achievement that a step adds to the collection.
Added == achievements'[Len(achievements')]

\* A step that adds a completion achievement adds it for the number of
\* completed check-in records of the user and habit, which is a milestone
\* for which the collection holds no completion achievement yet.
CompletionOnlyWhen ==
  (/\ Len(achievements') = Len(achievements) + 1
   /\ Added.type = "completion")
  => /\ Added.key = totalCompletions(Added.userId, Added.habitId)
     /\ Added.key \in CompletionMilestones
     /\ CompletionAchievements(Added.userId, Added.key, Added.habitId) = {}

IsStreakMilestone(streak) ==
  \/ streak \in {7, 30, 50, 100}
  \/ streak > 100 /\ streak % 100 = 0

\* A step that adds a streak achievement adds it for a milestone for which
\* the user holds no streak achievement yet.
StreakOnlyWhen ==
  (/\ Len(achievements') = Len(achievements) + 1
   /\ Added.type = "streak")
  => /\ IsStreakMilestone(Added.key)
     /\ StreakAchievements(Added.userId, Added.key) = {}
     /\ \E p \in Procs : /\ procs[p].pc = "C_addAch"
                         /\ procs[p].streakResult = Added.key
                         /\ procs[p].caller = Added.userId

RECURSIVE TotalReward(_)
TotalReward(list) ==
  IF list = <<>> THEN 0 ELSE Head(list).xpReward + TotalReward(Tail(list))

\* The achievements of a sequence that are not level achievements: those
\* that checkAchievements itself saves.
RECURSIVE Unlocked(_)
Unlocked(list) ==
  IF list = <<>> THEN <<>>
  ELSE IF Head(list).type = "level" THEN Unlocked(Tail(list))
  ELSE <<Head(list)>> \o Unlocked(Tail(list))

\* The achievement notifications the collection has gained since the call.
NotifiedSince(req) ==
  {i \in (req.notifications0 + 1)..Len(notifications) :
     notifications[i].title = "achievement" /\ notifications[i].userId = req.caller}

\* C16: once checkAchievements has returned, every achievement it has saved
\* has its notification and its xp reward: the user has as many achievement
\* notifications more as achievements were saved, and the xp of the user
\* has grown by the rewards of all achievements created during the call.
C16_NotifiedAndRewarded ==
  \A p \in Procs :
     CheckReturned(procs[p]) =>
        LET req == procs[p]
        IN /\ Cardinality(NotifiedSince(req)) = Len(Unlocked(CreatedSince(req)))
           /\ Unlocked(CreatedSince(req)) # <<>> =>
                 /\ users[req.caller].exists
                 /\ currentXPOf(users[req.caller])
                       = req.xp0 + TotalReward(CreatedSince(req))

\* C17: the list checkAchievements returns is the list of the achievements
\* this call has saved, and is empty only when it has saved none.
C17_ReturnsUnlocked ==
  \A p \in Procs :
     CheckReturned(procs[p]) =>
        procs[p].unlocked = Unlocked(CreatedSince(procs[p]))

----------------------------------------------------------------------------
(* Properties of POST /checkins *)

\* The check-in record of a request is in the collection.
Recorded(req) ==
  Includes(checkins,
           createCheckInData(req.habitId, req.caller, req.date, req.completed))

\* C18: once POST /checkins has saved the check-in record and the streak, a
\* failure of the xp, achievement or notification side effects (addXP
\* failing for a missing user document included) is swallowed: the request
\* reports success, and the record and the streak stay.
C18_SideEffectsSwallowed ==
  \A p \in Procs :
     (/\ procs[p].op = "postCheckIn"
      /\ procs[p].pc = "done"
      /\ procs[p].resp \notin Rejections \cup {"already"})
     => /\ procs[p].resp = "ok"
        /\ Recorded(procs[p])
        /\ procs[p].completed # "false" =>
              Includes(habits[procs[p].habitId].completedDates, procs[p].date)

\* Where a handler stands while addXP or checkAchievements runs.
SideEffects ==
  {"X_get", "X_update", "L_addAch", "L_addNotif",
   "C_streakQ", "C_countQ", "C_existQ", "C_addAch", "C_addNotif"}

\* A step that changes a user, an achievement or a notification.
Awards ==
  \/ users' # users
  \/ achievements' # achievements
  \/ notifications' # notifications

\* C19: in POST /checkins for a completed check-in, addXP and
\* checkAchievements read and write only after the check-in record is
\* saved and the streak update has completed: while they run, and at every
\* step that awards xp or an achievement, the record is in the collection
\* and the date among the completed dates of the habit.
C19_RecordBeforeAwards ==
  /\ [](\A p \in Procs :
          (procs[p].op = "postCheckIn" /\ procs[p].pc \in SideEffects)
          => /\ procs[p].completed # "false"
             /\ Recorded(procs[p])
             /\ Includes(habits[procs[p].habitId].completedDates, procs[p].date))
  /\ [][Awards =>
          \E p \in Procs :
             /\ procs[p].pc \in SideEffects
             /\ procs[p].op = "postCheckIn" =>
                   /\ Recorded(procs[p])
                   /\ Includes(habits[procs[p].habitId].completedDates,
                               procs[p].date)]_vars

C19_Witness ==
  \E p \in Procs :
     /\ procs[p].op = "postCheckIn"
     /\ procs[p].pc = "X_update"
     /\ procs[p].site = "checkin"
     /\ procs[p].accepted
     /\ Recorded(procs[p])
     /\ habits[procs[p].habitId].streak = 7

----------------------------------------------------------------------------
(* Properties of the habit document *)

NoDuplicates(s) == \A i, j \in 1..Len(s) : i # j => s[i] # s[j]

\* C21: in every reachable state the completed dates of every habit hold no
\* date twice, whatever check-ins were accepted and rejected through either
\* check-in route.
C21_NoDuplicateDates ==
  \A h \in DOMAIN habits : NoDuplicates(habits[h].completedDates)

\* A second check-in for a day through POST /checkins was answered with
\* success, and the day is among the completed dates.
C21_Witness ==
  \E p \in Procs :
     /\ procs[p].op = "postCheckIn" /\ procs[p].completed = "omitted"
     /\ procs[p].pc = "done" /\ procs[p].resp = "ok"
     /\ ~procs[p].accepted
     /\ Includes(habits[procs[p].habitId].completedDates, procs[p].date)

\* C22: over any sequence of check-ins and of other operations on habits
\* (update, pause, archive, deactivation of the account), the longestStreak
\* of a habit never decreases.
C22_LongestNeverDecreases ==
  [][\A h \in DOMAIN habits :
        /\ h \in DOMAIN habits'
        /\ habits'[h].longestStreak >= habits[h].longestStreak]_vars

\* The longest streak has grown, and the habit has since been archived by
\* the deactivation of the account.
C22_Witness ==
  /\ habits["h1"].longestStreak = 7
  /\ habits["h1"].archived
  /\ \E p \in Procs : procs[p].op = "deactivate" /\ procs[p].pc = "done"

\* The greatest of a non-empty sequence of days.
Latest(dates) ==
  CHOOSE d \in {dates[i] : i \in 1..Len(dates)} :
     \A i \in 1..Len(dates) : dates[i] <= d

\* The number of consecutive eligible days with a completed check-in, counted
\* back from day d: the eligible day before d is looked for in the week
\* before it, after which a weekly rule repeats.
RECURSIVE EligibleRun(_, _)
EligibleRun(habit, d) ==
  IF ~Includes(habit.completedDates, d) THEN 0
  ELSE LET before == {e \in (d - 7)..(d - 1) : isDateValidForHabit(habit, e)}
       IN IF before = {} THEN 1
          ELSE 1 + EligibleRun(habit,
                     CHOOSE e \in before : \A f \in before : f <= e)

\* Every completed date is an eligible day under the rule the habit has now.
AllEligible(habit) ==
  \A i \in 1..Len(habit.completedDates) :
     isDateValidForHabit(habit, habit.completedDates[i])

\* C23: in every reachable state the streak of a habit is the number of
\* consecutive eligible days (under its recurrence rule) with a completed
\* check-in, counted back from the most recent completed check-in; a weekly
\* habit checked in on every eligible day gains 1 per check-in.
C23_StreakIsEligibleRun ==
  \A h \in DOMAIN habits :
     (habits[h].completedDates # <<>> /\ AllEligible(habits[h]))
     => habits[h].streak = EligibleRun(habits[h], Latest(habits[h].completedDates))

----------------------------------------------------------------------------
(* Properties of the push *)

\* C24: the update of the habit's streak and completed dates for a check-in
\* is stored before the streak-ended alert of that check-in is attempted: a
\* step that calls sendStreakEndAlert is the step of a check-in whose date is
\* among the stored completed dates.
C24_UpdateBeforePush ==
  [][alerts' # alerts =>
        \E p \in Procs :
           /\ procs'[p].alerted > 0
           /\ Includes(habits'[procs'[p].habitId].completedDates, procs'[p].date)]_vars

----------------------------------------------------------------------------
(* Properties of the lifecycle of a habit *)

\* C25: no operation on habits (update, pause/resume, archive, check-in,
\* deactivation of the account) deletes a habit document or takes an
\* archived habit back to not archived.
C25_ArchivedForGood ==
  [][\A h \in DOMAIN habits :
        /\ h \in DOMAIN habits'
        /\ habits[h].archived => habits'[h].archived]_vars

\* An archived habit has been resumed by the toggle.
C25_Witness ==
  /\ habits["h1"].archived
  /\ ~habits["h1"].paused
  /\ \E p \in Procs : /\ procs[p].op = "habitPause"
                       /\ procs[p].pc = "done"
                       /\ procs[p].resp = "ok"

\* C26: while a habit is paused or archived, no check-in for it is accepted
\* through either route: no step changes its streak or its completed dates
\* or creates a check-in record for it.
C26_NoCheckInWhilePaused ==
  [][\A h \in DOMAIN habits :
        (habits[h].paused \/ habits[h].archived) =>
           /\ habits'[h].streak = habits[h].streak
           /\ habits'[h].completedDates = habits[h].completedDates
           /\ \A i \in (Len(checkins) + 1)..Len(checkins') :
                 checkins'[i].habitId # h]_vars

----------------------------------------------------------------------------
(* Properties of the result of addXP, continued *)

\* C27: the xp and level that addXP returns are the xp and level of the user
\* document at the moment the call returns, also when the call has led to a
\* level-up and its bonus award.
C27_ReturnsPersisted ==
  \A p \in Procs :
     Returned(procs[p]) =>
        /\ procs[p].ret.xp = currentXPOf(users[procs[p].caller])
        /\ procs[p].ret.level = currentLevelOf(users[procs[p].caller])

----------------------------------------------------------------------------
(* Properties of the check-in records *)

\* C28: the userId and habitId of a check-in never change after creation,
\* whatever PUT and DELETE requests any users make, and only its creator
\* modifies or deletes it: a step leaves the userId and habitId of every
\* record, and a step that changes or removes a record is the step of a
\* request of the user the record belongs to.
C28_OwnershipFixed ==
  [][/\ Len(checkins') >= Len(checkins) =>
          \A i \in 1..Len(checkins) :
             /\ checkins'[i].userId = checkins[i].userId
             /\ checkins'[i].habitId = checkins[i].habitId
             /\ checkins'[i] # checkins[i] =>
                   \E p \in Procs : /\ procs[p].pc = "T_update"
                                    /\ procs[p].docId = i
                                    /\ procs[p].caller = checkins[i].userId
     /\ Len(checkins') < Len(checkins) =>
          \E p \in Procs :
             /\ procs[p].pc = "E_delete"
             /\ procs[p].caller = checkins[procs[p].docId].userId
             /\ checkins' = DeleteDoc(checkins, procs[p].docId)]_vars

\* The check-in records with completed = true of a habit for a date.
CompletedRecords(h, date) ==
  {j \in 1..Len(checkins) : /\ checkins[j].habitId = h
                            /\ checkins[j].date = date
                            /\ checkins[j].completed}

\* C29: in every reachable state every date among the completed dates of a
\* habit has a check-in record with completed = true for that habit and
\* date, so the habit has at least as many completed check-in records as
\* completed dates.
C29_DatesHaveRecords ==
  \A h \in DOMAIN habits :
     /\ \A i \in 1..Len(habits[h].completedDates) :
           CompletedRecords(h, habits[h].completedDates[i]) # {}
     /\ Cardinality({j \in 1..Len(checkins) :
                       checkins[j].habitId = h /\ checkins[j].completed})
           >= Len(habits[h].completedDates)

\* A handler of POST /checkins whose request says completed: false.
NotCompleted(req) ==
  req.op = "postCheckIn" /\ req.completed = "false"

\* C30: a POST /checkins request with completed = false creates a check-in
\* record with completed = false and changes nothing else: the habit, the
\* user's xp and level, the achievements and the notifications are as
\* before, and no alert is called for.
C30_NotCompletedFrame ==
  /\ [](\A p \in Procs :
          (NotCompleted(procs[p]) /\ procs[p].pc = "done"
           /\ procs[p].resp \notin Rejections)
          => /\ Recorded(procs[p])
             /\ \E i \in NewCheckIns :
                   /\ ~checkins[i].completed
                   /\ checkins[i].habitId = procs[p].habitId
                   /\ checkins[i].date = procs[p].date)
  /\ [][\A p \in Procs :
          (NotCompleted(procs'[p]) /\ procs[p].pc # "done")
          => /\ habits' = habits
             /\ users' = users
             /\ achievements' = achievements
             /\ notifications' = notifications
             /\ alerts' = alerts
             /\ \/ checkins' = checkins
                \/ /\ procs[p].pc = "B_add"
                   /\ checkins' = Append(checkins,
                         createCheckInData(procs[p].habitId, procs[p].caller,
                                           procs[p].date, "false"))]_vars

\* A request with completed: false for the current day was answered with
\* success on a habit with a streak of 6, which it has left.
C30_Witness ==
  \E p \in Procs :
     /\ NotCompleted(procs[p])
     /\ procs[p].pc = "done" /\ procs[p].resp = "ok"
     /\ procs[p].date = clock
     /\ Recorded(procs[p])
     /\ habits[procs[p].habitId].streak = 6
     /\ ~Includes(habits[procs[p].habitId].completedDates, procs[p].date)
     /\ users[procs[p].caller].xp = Len(PastDays) * XP_CHECK_IN

====
